---- MODULE Spec2Model ----
(***************************************************************************)
(* Electron main process of the rice scanner desktop shell: the child      *)
(* process supervisor, the readiness gate of createWindow, and the update  *)
(* coordinator built around electron-updater's autoUpdater.                *)
(* Source: src/rice_webapp_frontend/src/utils/pdfGenerator.js, 467-1040.   *)
(*                                                                         *)
(* Child processes, createWindow runs and pending timers carry no identity *)
(* the code reads, so each is kept as a multiset: processes by kind and    *)
(* life state, runs as a bag of run records, timers as a count.            *)
(***************************************************************************)
EXTENDS Integers, Sequences, FiniteSets, Bags, TLC

\* ------------------------------------------------------------------ bounds
\* createWindow runs (the whenReady run plus `activate` re-creations)
MaxRuns == 2
\* createWindow runs where the dock icon is clicked repeatedly
MaxDockRuns == 3
\* checkForUpdates calls awaiting the updater at the same time
MaxCallers == 2
\* distinct download-progress percent steps
MaxPct == 1

\* -------------------------------------------------------- program constants
\* `let mainWindow;` leaves the variable undefined until a window is created
Undefined == -1
\* `mainWindow = null` in the window's closed handler
Null == 0
\* `mainWindow = new BrowserWindow(...)`
Window == 1
\* app.getVersion(); remote manifest versions are drawn around it
CurrentVersion == 2
\* the three setTimeout checks scheduled by did-finish-load
NumTimers == 3
\* the library's default, autoUpdater.autoDownload = true
autoDownloadDefault == TRUE
\* autoUpdater.autoDownload = false
autoDownload == FALSE
\* autoUpdater.autoInstallOnAppQuit = true
autoInstallOnAppQuit == TRUE

RemoteVersions == (CurrentVersion - 1)..(CurrentVersion + 1)
Platforms == {"win32", "darwin"}
Kinds == {"backend", "scanner"}
KillOutcomes == {"first", "fallback", "none"}

VARIABLES
  isPackaged,            \* app.isPackaged
  isDev,                 \* process.env.NODE_ENV === 'development'
  platform,              \* process.platform
  app,                   \* "running" | "exited"
  exitCode,              \* <<>> while the process runs, then <<its exit status>>
  tempDir,               \* entries of app.getPath('temp'): name -> kind of entry
  hw,                    \* the hardware-id handlers: last OS-query outputs and results
  proc,                  \* per kind: the slot variable and the processes it no longer holds
  runs,                  \* bag of createWindow invocations
  mainWindow,            \* Undefined, Null or Window
  timers,                \* armed setTimeout(checkForUpdates) callbacks
  isCheckingForUpdate,   \* the in-flight flag
  lastUpdateCheckResult, \* the retained result
  upd,                   \* state of the autoUpdater object
  view,                  \* the update notice in the renderer: what it shows
  obs,                   \* history of the update session: the last check event,
                         \* whether a check ever reported an update, the outcome of
                         \* the last check that completed, and whether that check
                         \* completed while no window existed
  act,                   \* the handler that ran in the last step
  calls,                 \* what the last step called and logged, in order
  emitted,               \* autoUpdater event emitted in the last step, or "none"
  sent,                  \* webContents.send channel of the last step, or "none"
  reply                  \* value returned / thrown by the last step's handler

vars == <<isPackaged, isDev, platform, app, exitCode, tempDir, hw, proc, runs, mainWindow,
          timers, isCheckingForUpdate, lastUpdateCheckResult, upd, view, obs, act, calls,
          emitted, sent, reply>>

config == <<isPackaged, isDev, platform>>
updater == <<isCheckingForUpdate, lastUpdateCheckResult, upd, obs>>

\* ------------------------------------------------------------------ values
NoReply == [kind |-> "none", available |-> FALSE, version |-> 0]
Msg(m) == [kind |-> m, available |-> FALSE, version |-> 0]
NoResult == [set |-> FALSE, available |-> FALSE, version |-> 0]

\* useState(null), useState(false), useState(null): the notice shows nothing
NoView == [updateInfo |-> 0, updateReady |-> FALSE, error |-> FALSE]

\* the slot variables: "none" (null / undefined), or the state of the process
\* whose handle they hold: "alive", or "dead" (exited, 'close' not yet delivered)
backendProcess == proc["backend"].slot
scannerProcess == proc["scanner"].slot

\* processes of a kind that are running, whether a slot holds them or not
Alive(k) == proc[k].alive + (IF proc[k].slot = "alive" THEN 1 ELSE 0)

\* groups of helper processes forked by processes of a kind that are running:
\* those of the process the slot holds (kids) and all others (strays)
Descendants(k) == proc[k].strays + (IF proc[k].kids THEN 1 ELSE 0)

IsOpen(run) == run.win \in {"open", "loaded"}
OpenWindows(rs) == {run \in BagToSet(rs) : IsOpen(run)}
Replace(rs, old, new) == (rs (-) SetToBag({old})) (+) SetToBag({new})

\* ------------------------------------------------------ process supervisor
\* What becomes of a kind's processes when its slot variable is overwritten
\* with `next`: the process the slot held stays as it is, without a reference.
Overwrite(p, next) ==
  [slot |-> next,
   alive |-> p.alive + (IF p.slot = "alive" THEN 1 ELSE 0),
   dead |-> p.dead + (IF p.slot = "dead" THEN 1 ELSE 0),
   kids |-> FALSE,
   strays |-> p.strays + (IF p.kids THEN 1 ELSE 0)]

\* slot = spawn(...). A spawn that fails emits 'error' on the next tick, whose
\* handler sets the slot to null before anything else can run; the handle's
\* 'close' event is still to come.
spawn(p, ok) ==
  IF ok THEN Overwrite(p, "alive")
  ELSE [Overwrite(p, "none") EXCEPT !.dead = @ + 1]

\* killProcessTree(pid) on the process a slot holds; the process state after
\* it. outcome: "first" the platform kill (taskkill /T /F, or SIGTERM) worked,
\* "fallback" it threw and SIGKILL worked, "none" both threw (only logged).
\* A kill of a process that has already exited throws both times.
killProcessTree(st, outcome) ==
  IF st = "alive" /\ outcome \in {"first", "fallback"} THEN "dead" ELSE st

\* The first kill killProcessTree tries: `taskkill /pid <pid> /T /F` on
\* win32, process.kill(pid, 'SIGTERM') on every other platform.
PlatformKill == IF platform = "win32" THEN "taskkill" ELSE "SIGTERM"

\* a killProcessTree without its try/catch: both kills are always sent
KillLogNoCatch(outcome) == <<PlatformKill, "SIGKILL">>

\* What killProcessTree(pid) attempts and logs, in order: the platform kill;
\* if it threw, console.warn and process.kill(pid, 'SIGKILL'); if that threw
\* too, console.warn again. Nothing is rethrown.
KillLog(outcome) ==
  <<PlatformKill>> \o
  (IF outcome = "first" THEN <<>> ELSE <<"warn", "SIGKILL">>) \o
  (IF outcome = "none" THEN <<"warn">> ELSE <<>>)

\* Whether the helpers forked by the process in the slot survive
\* killProcessTree: only taskkill /T ends the tree; process.kill signals
\* the one pid.
KidsAfterKill(p, outcome) ==
  IF p.slot = "alive" /\ outcome = "first" /\ PlatformKill = "taskkill" THEN FALSE ELSE p.kids

\* if (slot && slot.pid) { killProcessTree(slot.pid); slot = null; }
StopSlot(p, outcome) ==
  IF p.slot = "none" THEN p
  ELSE Overwrite([p EXCEPT !.slot = killProcessTree(p.slot, outcome),
                           !.kids = KidsAfterKill(p, outcome)], "none")

\* the call killProcessTree(slot.pid) and what it attempts and logs
StopSlotLog(p, outcome) ==
  IF p.slot = "none" THEN <<>> ELSE <<"killProcessTree">> \o KillLog(outcome)

\* cleanupProcesses(): backend first, then scanner
cleanupProcesses(pr, ob, os) ==
  [backend |-> StopSlot(pr["backend"], ob), scanner |-> StopSlot(pr["scanner"], os)]

cleanupProcessesLog(pr, ob, os) ==
  <<"cleanupProcesses">> \o StopSlotLog(pr["backend"], ob) \o StopSlotLog(pr["scanner"], os)

\* -------------------------------------------------------------- the janitor
\* item.startsWith(prefix), on names as sequences of characters
StartsWith(name, prefix) ==
  Len(name) >= Len(prefix) /\ SubSeq(name, 1, Len(prefix)) = prefix

\* '_MEI'
MeiPrefix == <<"_", "M", "E", "I">>

\* Names the temp directory may hold, in the order readdirSync lists them:
\* two extraction directories' names, one that only contains the prefix, one
\* that is a proper prefix of it.
TempNames ==
  << <<"_", "M", "E", "I">>, <<"_", "M", "E", "I", "7">>,
     <<"x", "_", "M", "E", "I">>, <<"_", "M", "E">> >>

\* What a name is in the temp directory: nothing, a file, a directory, or a
\* directory whose statSync / rmSync throws (in use, no permission).
TempKinds == {"absent", "file", "dir", "locked"}

\* item.startsWith('_MEI') for each of the names
IsExtractionName == [i \in DOMAIN TempNames |-> StartsWith(TempNames[i], MeiPrefix)]

\* the forEach body for the i-th name: a directory whose name starts with
\* _MEI is removed with fs.rmSync(recursive, force); a throw is caught for
\* that item alone.
CleanItem(i, kind) ==
  IF IsExtractionName[i] /\ kind = "dir" THEN "absent" ELSE kind

\* a forEach without the inner try/catch: the first item that throws ends
\* the whole pass (the outer catch logs it)
cleanupTempFoldersAbortsOnThrow(td) ==
  LET Stops(i) == \E j \in 1..(i - 1) : IsExtractionName[j] /\ td[j] = "locked"
  IN [i \in DOMAIN td |-> IF Stops(i) THEN td[i] ELSE CleanItem(i, td[i])]

\* cleanupTempFolders(): td maps the position of each name to what it is
cleanupTempFolders(td) ==
  [i \in DOMAIN td |-> CleanItem(i, td[i])]

\* what the forEach body does for the i-th name: "rmSync" for an extraction
\* directory, "warn: failed to delete" when statSync / rmSync threw, nothing
\* ("") otherwise
ItemLog(i, kind) ==
  IF ~IsExtractionName[i] THEN ""
  ELSE IF kind = "dir" THEN "rmSync"
  ELSE IF kind = "locked" THEN "warn: failed to delete"
  ELSE ""

TempLog(td) == SelectSeq([i \in DOMAIN td |-> ItemLog(i, td[i])], LAMBDA c : c # "")

cleanupTempFoldersLog(td) == <<"cleanupTempFolders">> \o TempLog(td)

\* The teardown every shutdown entry point runs: cleanupProcesses() then
\* cleanupTempFolders(). w holds the processes, the temp directory and the
\* calls made so far in the handler.
TeardownSkipped(w, ob, os) == w

Teardown(w, ob, os) ==
  [proc |-> cleanupProcesses(w.proc, ob, os),
   temp |-> cleanupTempFolders(w.temp),
   calls |-> w.calls \o cleanupProcessesLog(w.proc, ob, os) \o cleanupTempFoldersLog(w.temp)]

\* the handler's view of the world when it starts, having logged cs
World(cs) == [proc |-> proc, temp |-> tempDir, calls |-> cs]

Called(w, c) == [w EXCEPT !.calls = Append(@, c)]

\* the executable a slot holds forks helper processes of its own
ChildFork(k) ==
  /\ app = "running"
  /\ proc[k].slot = "alive"
  /\ ~proc[k].kids
  /\ proc' = [proc EXCEPT ![k].kids = TRUE]
  /\ act' = "childFork" /\ calls' = <<>> /\ emitted' = "none" /\ sent' = "none" /\ reply' = NoReply
  /\ UNCHANGED <<config, view, hw, app, exitCode, tempDir, runs, mainWindow, timers, updater>>

\* a child exits by itself (crash or normal end); its 'close' event is pending.
\* held: the process the slot holds, otherwise one the slot no longer holds.
ChildExit(k, held) ==
  /\ app = "running"
  /\ IF held
     THEN /\ proc[k].slot = "alive"
          /\ proc' = [proc EXCEPT ![k].slot = "dead"]
     ELSE /\ proc[k].alive > 0
          /\ proc' = [proc EXCEPT ![k].alive = @ - 1, ![k].dead = @ + 1]
  /\ act' = "childExit" /\ calls' = <<>> /\ emitted' = "none" /\ sent' = "none" /\ reply' = NoReply
  /\ UNCHANGED <<config, view, hw, app, exitCode, tempDir, runs, mainWindow, timers, updater>>

\* a child whose 'close' and 'error' events have no handler: the slot keeps
\* the handle
OnCloseKeeps(p, held) ==
  IF held THEN p ELSE [p EXCEPT !.dead = @ - 1]

\* process.on('close', ...) / .on('error', ...) of an exited child:
\* `backendProcess = null` (resp. `scannerProcess = null`), whichever process
\* the slot holds at that moment.
OnClose(p, held) ==
  IF held THEN [p EXCEPT !.slot = "none"]
  ELSE [Overwrite(p, "none") EXCEPT !.dead = @ - 1]

ChildClosed(k, held) ==
  /\ app = "running"
  /\ IF held THEN proc[k].slot = "dead" ELSE proc[k].dead > 0
  /\ proc' = [proc EXCEPT ![k] = OnClose(proc[k], held)]
  /\ act' = "childClosed" /\ calls' = <<>> /\ emitted' = "none" /\ sent' = "none" /\ reply' = NoReply
  /\ UNCHANGED <<config, view, hw, app, exitCode, tempDir, runs, mainWindow, timers, updater>>

\* ------------------------------------------------------------ app shutdown
\* The updater's quit handler: with autoInstallOnAppQuit a downloaded update
\* is installed when the app quits.
InstallOnQuit(u) ==
  IF autoInstallOnAppQuit /\ u.dl = "downloaded" /\ u.installed = "no"
  THEN [u EXCEPT !.installed = "onQuit"] ELSE u

Closed(run) == IF IsOpen(run) THEN [run EXCEPT !.win = "closed"] ELSE run

CloseAllWindows(rs) ==
  LET S == BagToSet(rs)
  IN [t \in {Closed(x) : x \in S} |->
        BagCardinality([x \in {y \in S : Closed(y) = t} |-> rs[x]])]

\* app.quit(): before-quit handler (cleanupProcesses, cleanupTempFolders), the
\* windows close (closed handler: mainWindow = null), the updater's quit
\* handler, then process 'exit' (both cleanups again); the process ends
\* with status 0. rs, w, u are the values the calling handler has produced
\* so far.
Quit(rs, w, u, ob, os) ==
  \E t1 \in {Teardown(Called(w, "app.quit"), ob, os)} : \E t \in {Teardown(t1, ob, os)} :
     /\ proc' = t.proc
     /\ tempDir' = t.temp
     /\ calls' = t.calls
     /\ runs' = CloseAllWindows(rs)
     /\ mainWindow' = IF OpenWindows(rs) # {} THEN Null ELSE mainWindow
     /\ upd' = InstallOnQuit(u)
     /\ app' = "exited"
     /\ exitCode' = <<0>>

\* ------------------------------------------------------------ createWindow
NewRun == [pc |-> "backendDelay", sprobe |-> "none", probe |-> "none", win |-> "none"]

\* a startBackend that starts the scanner together with the backend
startBackendWithScanner(ok) ==
  /\ proc' = [proc EXCEPT !["backend"] = spawn(@, ok), !["scanner"] = spawn(@, ok)]
  /\ runs' = runs (+) SetToBag({NewRun})

\* createWindow() up to its first await: startBackend() spawns the backend,
\* stores the handle in backendProcess and arms the 3 s timer.
startBackend(ok) ==
  /\ proc' = [proc EXCEPT !["backend"] = spawn(@, ok)]
  /\ runs' = runs (+) SetToBag({NewRun})

\* app.whenReady().then(...): cleanupTempFolders(); createWindow()
WhenReady(ok) ==
  /\ app = "running"
  /\ BagCardinality(runs) = 0
  /\ tempDir' = cleanupTempFolders(tempDir)
  /\ calls' = cleanupTempFoldersLog(tempDir)
  /\ startBackend(ok)
  /\ act' = "whenReady" /\ emitted' = "none" /\ sent' = "none" /\ reply' = NoReply
  /\ UNCHANGED <<config, view, hw, app, exitCode, mainWindow, timers, updater>>

\* The condition of app.on('activate'): `mainWindow === null`
ActivateCreates == mainWindow = Null

\* app.on('activate'): if (mainWindow === null) createWindow(). The event is
\* emitted on macOS only. max bounds the createWindow runs of one execution.
ActivateWithin(ok, max) ==
  /\ app = "running"
  /\ platform = "darwin"
  /\ BagCardinality(runs) < max
  /\ ActivateCreates
  /\ startBackend(ok)
  /\ act' = "activate" /\ calls' = <<>> /\ emitted' = "none" /\ sent' = "none" /\ reply' = NoReply
  /\ UNCHANGED <<config, view, hw, app, exitCode, tempDir, mainWindow, timers, updater>>

Activate(ok) == ActivateWithin(ok, MaxRuns)

\* The 3 s timer of startBackend resolves; startScannerService() runs up to
\* its own timer. how: "absent" no entrypoint (packaged build only), "throws"
\* spawn threw, "failed" the spawned handle emitted 'error' (its handler
\* resolves at once), "spawned" the scanner runs and the 1.5 s timer is armed.
startScannerService(run, how) ==
  /\ how = "absent" => isPackaged
  /\ calls' = CASE how = "absent" -> <<"warn: scanner not bundled">>
                [] how = "throws" -> <<"warn: failed to start scanner">>
                [] how = "failed" -> <<"warn: scanner process error">>
                [] OTHER -> <<>>
  /\ IF how \in {"spawned", "failed"}
     THEN proc' = [proc EXCEPT !["scanner"] = spawn(@, how = "spawned")]
     ELSE proc' = proc
  /\ runs' = Replace(runs, run,
                [run EXCEPT !.pc = IF how = "spawned" THEN "scannerDelay" ELSE "scannerProbe"])

BackendDelayElapsed(run, how) ==
  /\ app = "running"
  /\ run \in BagToSet(runs)
  /\ run.pc = "backendDelay"
  /\ startScannerService(run, how)
  /\ act' = "startScannerService" /\ emitted' = "none" /\ sent' = "none" /\ reply' = NoReply
  /\ UNCHANGED <<config, view, hw, app, exitCode, tempDir, mainWindow, timers, updater>>

\* a startScannerService without its setTimeout(resolve, 1500): once the
\* scanner is spawned the promise is never resolved
ScannerDelayNeverElapses(run) ==
  /\ FALSE
  /\ UNCHANGED vars

\* The 1.5 s timer of startScannerService resolves; waitOn(scanner) starts.
ScannerDelayElapsed(run) ==
  /\ app = "running"
  /\ run \in BagToSet(runs)
  /\ run.pc = "scannerDelay"
  /\ runs' = Replace(runs, run, [run EXCEPT !.pc = "scannerProbe"])
  /\ act' = "scannerDelay" /\ calls' = <<>> /\ emitted' = "none" /\ sent' = "none" /\ reply' = NoReply
  /\ UNCHANGED <<config, view, hw, app, exitCode, proc, tempDir, mainWindow, timers, updater>>

\* a createWindow without the inner try/catch: a scanner probe timeout
\* reaches the outer catch block (error box, app.quit())
ScannerProbeDoneUncaught(run, res) ==
  /\ app = "running"
  /\ run \in BagToSet(runs)
  /\ run.pc = "scannerProbe"
  /\ IF res = "ok"
     THEN /\ runs' = Replace(runs, run, [run EXCEPT !.pc = "backendProbe", !.sprobe = res])
          /\ calls' = <<>>
          /\ UNCHANGED <<app, exitCode, proc, tempDir, mainWindow, upd>>
     ELSE Quit(Replace(runs, run, [run EXCEPT !.pc = "done", !.sprobe = res]),
               World(<<"showErrorBox">>), upd, "first", "first")
  /\ act' = "scannerProbe" /\ emitted' = "none" /\ sent' = "none" /\ reply' = NoReply
  /\ UNCHANGED <<config, view, hw, timers, isCheckingForUpdate, lastUpdateCheckResult, obs>>

\* waitOn(scanner status) settles; a timeout is caught and logged.
ScannerProbeDone(run, res) ==
  /\ app = "running"
  /\ run \in BagToSet(runs)
  /\ run.pc = "scannerProbe"
  /\ runs' = Replace(runs, run, [run EXCEPT !.pc = "backendProbe", !.sprobe = res])
  /\ calls' = IF res = "ok" THEN <<>> ELSE <<"warn: scanner did not start">>
  /\ act' = "scannerProbe" /\ emitted' = "none" /\ sent' = "none" /\ reply' = NoReply
  /\ UNCHANGED <<config, view, hw, app, exitCode, proc, tempDir, mainWindow, timers, updater>>

\* createWindow's catch block without its `return`: after app.quit() the
\* function falls through to `new BrowserWindow`.
createWindowTailNoReturn(run, res, ob, os) ==
  Quit(Replace(runs, run, [run EXCEPT !.pc = "done", !.probe = res, !.win = "open"]),
       World(<<"showErrorBox">>), upd, ob, os)

\* The rest of createWindow once waitOn(backend health) has settled with res.
\* "ok": new BrowserWindow, mainWindow set. "timeout": the catch block shows
\* the error box, calls app.quit() and returns.
createWindowTail(run, res, ob, os) ==
  IF res = "ok"
  THEN /\ runs' = Replace(runs, run, [run EXCEPT !.pc = "done", !.probe = res, !.win = "open"])
       /\ mainWindow' = Window
       /\ calls' = <<>>
       /\ UNCHANGED <<app, exitCode, proc, tempDir, upd>>
  ELSE Quit(Replace(runs, run, [run EXCEPT !.pc = "done", !.probe = res]),
            World(<<"showErrorBox">>), upd, ob, os)

BackendProbeDone(run, res, ob, os) ==
  /\ app = "running"
  /\ run \in BagToSet(runs)
  /\ run.pc = "backendProbe"
  /\ createWindowTail(run, res, ob, os)
  /\ act' = IF res = "ok" THEN "windowCreated" ELSE "fatal"
  /\ emitted' = "none" /\ sent' = "none" /\ reply' = NoReply
  /\ UNCHANGED <<config, view, hw, timers, isCheckingForUpdate, lastUpdateCheckResult, obs>>

\* mainWindow.on('closed'): mainWindow = null. When it was the last window,
\* window-all-closed follows: cleanupProcesses, cleanupTempFolders and, except
\* on macOS, app.quit().
WindowClosed(run, ob, os) ==
  /\ app = "running"
  /\ run \in BagToSet(runs)
  /\ IsOpen(run)
  /\ LET rs == Replace(runs, run, Closed(run))
     IN IF OpenWindows(rs) # {}
        THEN /\ runs' = rs /\ mainWindow' = Null
             /\ act' = "windowClosed"
             /\ calls' = <<>>
             /\ UNCHANGED <<app, exitCode, proc, tempDir, upd>>
        ELSE IF platform = "darwin"
             THEN /\ runs' = rs /\ mainWindow' = Null
                  /\ \E t \in {Teardown(World(<<>>), ob, os)} :
                        proc' = t.proc /\ tempDir' = t.temp /\ calls' = t.calls
                  /\ act' = "windowAllClosed"
                  /\ UNCHANGED <<app, exitCode, upd>>
             ELSE /\ \E t \in {Teardown(World(<<>>), ob, os)} : Quit(rs, t, upd, ob, os)
                  /\ act' = "windowAllClosed"
  /\ emitted' = "none" /\ sent' = "none" /\ reply' = NoReply
  /\ UNCHANGED <<config, view, hw, timers, isCheckingForUpdate, lastUpdateCheckResult, obs>>

\* An ordinary quit (menu, Cmd+Q, OS session end): app.quit() semantics.
AppQuit(ob, os) ==
  /\ app = "running"
  /\ Quit(runs, World(<<>>), upd, ob, os)
  /\ act' = "quit" /\ emitted' = "none" /\ sent' = "none" /\ reply' = NoReply
  /\ UNCHANGED <<config, view, hw, timers, isCheckingForUpdate, lastUpdateCheckResult, obs>>

\* process.on('SIGINT' | 'SIGTERM'): cleanupProcesses, cleanupTempFolders,
\* process.exit(0), then the 'exit' handler. Whether the updater's quit
\* handler still runs on this path is left open (inst).
Signal(ob, os, inst) ==
  /\ app = "running"
  /\ \E t1 \in {Teardown(World(<<>>), ob, os)} :
        \E t \in {Teardown(Called(t1, "process.exit"), ob, os)} :
           proc' = t.proc /\ tempDir' = t.temp /\ calls' = t.calls
  /\ exitCode' = <<0>>
  /\ runs' = CloseAllWindows(runs)
  /\ mainWindow' = IF OpenWindows(runs) # {} THEN Null ELSE mainWindow
  /\ upd' = IF inst THEN InstallOnQuit(upd) ELSE upd
  /\ app' = "exited"
  /\ act' = "signal" /\ emitted' = "none" /\ sent' = "none" /\ reply' = NoReply
  /\ UNCHANGED <<config, view, hw, timers, isCheckingForUpdate, lastUpdateCheckResult, obs>>

\* -------------------------------------------------------- update coordinator
\* if (mainWindow && mainWindow.webContents) mainWindow.webContents.send(ch, ...)
Channel(ch) == IF mainWindow = Window THEN ch ELSE "none"

\* autoUpdater.on('checking-for-update'): isCheckingForUpdate = true
OnCheckingForUpdate ==
  /\ isCheckingForUpdate' = TRUE
  /\ sent' = Channel("update-status")

\* an 'error' handler that also drops the retained result
OnErrorForgets ==
  /\ isCheckingForUpdate' = FALSE
  /\ lastUpdateCheckResult' = NoResult
  /\ sent' = Channel("update-error")

\* autoUpdater.on('error'): isCheckingForUpdate = false, update-error is sent
\* to the window if there is one; lastUpdateCheckResult is not touched.
OnError ==
  /\ isCheckingForUpdate' = FALSE
  /\ lastUpdateCheckResult' = lastUpdateCheckResult
  /\ sent' = Channel("update-error")

\* autoUpdater.on('update-available', info)
OnUpdateAvailable(v) ==
  /\ isCheckingForUpdate' = FALSE
  /\ lastUpdateCheckResult' = [set |-> TRUE, available |-> TRUE, version |-> v]
  /\ sent' = Channel("update-available")

\* an 'update-not-available' handler that keeps the result it finds
OnUpdateNotAvailableKeeps(v) ==
  /\ isCheckingForUpdate' = FALSE
  /\ lastUpdateCheckResult' = lastUpdateCheckResult
  /\ sent' = Channel("update-status")

\* autoUpdater.on('update-not-available', info)
OnUpdateNotAvailable(v) ==
  /\ isCheckingForUpdate' = FALSE
  /\ lastUpdateCheckResult' = [set |-> TRUE, available |-> FALSE, version |-> v]
  /\ sent' = Channel("update-status")

\* The first guard of checkForUpdates(): `if (!isPackaged) return {Development mode}`
UpdatesDisabledForCheck == ~isPackaged

\* The guard of update:download and update:install: `if (!isPackaged || isDev) throw`
UpdatesDisabledForAction == ~isPackaged \/ isDev

\* checkForUpdates() up to `await autoUpdater.checkForUpdates()`. The updater
\* emits checking-for-update synchronously when it starts a check (handler:
\* isCheckingForUpdate = true, update-status sent) and hands a call made
\* while its own check is running the promise of that check.
checkForUpdates ==
  IF UpdatesDisabledForCheck
  THEN /\ reply' = Msg("Development mode")
       /\ calls' = <<>> /\ emitted' = "none" /\ sent' = "none"
       /\ UNCHANGED updater
  ELSE IF isCheckingForUpdate
  THEN /\ reply' = Msg("Check in progress")
       /\ calls' = <<>> /\ emitted' = "none" /\ sent' = "none"
       /\ UNCHANGED updater
  ELSE /\ upd.callers < MaxCallers
       /\ reply' = NoReply
       /\ lastUpdateCheckResult' = lastUpdateCheckResult
       /\ IF upd.checking
          THEN /\ upd' = [upd EXCEPT !.callers = @ + 1]
               /\ calls' = <<>> /\ emitted' = "none" /\ sent' = "none"
               /\ UNCHANGED <<isCheckingForUpdate, obs>>
          ELSE /\ upd' = [upd EXCEPT !.callers = @ + 1, !.checking = TRUE]
               /\ calls' = <<>> /\ emitted' = "checking-for-update"
               /\ OnCheckingForUpdate
               /\ obs' = [obs EXCEPT !.check = "checking"]

\* mainWindow.webContents.once('did-finish-load'): the three timers are armed
DidFinishLoad(run) ==
  /\ app = "running"
  /\ run \in BagToSet(runs)
  /\ run.win = "open"
  /\ runs' = Replace(runs, run, [run EXCEPT !.win = "loaded"])
  /\ timers' = timers + NumTimers
  /\ act' = "didFinishLoad" /\ calls' = <<>> /\ emitted' = "none" /\ sent' = "none" /\ reply' = NoReply
  /\ UNCHANGED <<config, view, hw, app, exitCode, proc, tempDir, mainWindow, updater>>

\* a timer callback that leaves the updater alone once an update was found
TimerCheckUnlessFound ==
  /\ app = "running"
  /\ timers > 0
  /\ timers' = timers - 1
  /\ IF lastUpdateCheckResult.available
     THEN /\ reply' = Msg("Check in progress")
          /\ calls' = <<>> /\ emitted' = "none" /\ sent' = "none"
          /\ UNCHANGED updater
     ELSE checkForUpdates
  /\ act' = "timerCheck"
  /\ UNCHANGED <<config, view, hw, app, exitCode, proc, tempDir, mainWindow, runs>>

\* One of the setTimeout callbacks fires: checkForUpdates().catch(log)
TimerCheck ==
  /\ app = "running"
  /\ timers > 0
  /\ timers' = timers - 1
  /\ checkForUpdates
  /\ act' = "timerCheck"
  /\ UNCHANGED <<config, view, hw, app, exitCode, proc, tempDir, mainWindow, runs>>

\* ipcMain.handle('update:check')
UpdateCheck ==
  /\ app = "running"
  /\ OpenWindows(runs) # {}
  /\ checkForUpdates
  /\ act' = "update:check"
  /\ UNCHANGED <<config, view, hw, app, exitCode, proc, tempDir, mainWindow, runs, timers>>

\* The updater's check settles. res is the manifest version it fetched, or 0
\* for a network / manifest error. A version above the running one is an
\* update (update-available, and the update info is kept for downloadUpdate);
\* any other version is update-not-available; an error emits 'error' and
\* rejects. Every awaiting checkForUpdates() then returns
\* {available: version !== app.getVersion()} or rethrows.
CheckSettles(res) ==
  /\ app = "running"
  /\ upd.checking
  /\ IF res = 0
     THEN /\ calls' = <<>> /\ emitted' = "error"
          /\ OnError
          /\ upd' = [upd EXCEPT !.checking = FALSE, !.callers = 0]
          /\ obs' = [obs EXCEPT !.check = "error"]
          /\ reply' = Msg("throw")
     ELSE IF res > CurrentVersion
     THEN /\ calls' = <<>> /\ emitted' = "update-available"
          /\ OnUpdateAvailable(res)
          /\ upd' = [upd EXCEPT !.checking = FALSE, !.callers = 0, !.hasInfo = TRUE,
                                !.dl = IF autoDownload THEN "downloading" ELSE @]
          /\ obs' = [check |-> "available", everAvailable |-> TRUE,
                     unseen |-> mainWindow # Window, percent |-> obs.percent,
                     outcome |-> [set |-> TRUE, available |-> TRUE, version |-> res]]
          /\ reply' = [kind |-> "result", available |-> res # CurrentVersion, version |-> res]
     ELSE /\ calls' = <<>> /\ emitted' = "update-not-available"
          /\ OnUpdateNotAvailable(res)
          /\ upd' = [upd EXCEPT !.checking = FALSE, !.callers = 0]
          /\ obs' = [obs EXCEPT !.check = "not-available",
                                !.unseen = mainWindow # Window,
                                !.outcome = [set |-> TRUE, available |-> FALSE, version |-> res]]
          /\ reply' = [kind |-> "result", available |-> res # CurrentVersion, version |-> res]
  /\ act' = "checkSettles"
  /\ UNCHANGED <<config, view, hw, app, exitCode, proc, tempDir, mainWindow, runs, timers>>

\* a downloadUpdate() that starts whatever the updater knows
downloadUpdateUnguarded ==
  /\ upd' = [upd EXCEPT !.dl = "downloading", !.pct = 0]
  /\ obs' = [obs EXCEPT !.percent = 0]
  /\ reply' = NoReply
  /\ calls' = <<>> /\ emitted' = "none" /\ sent' = "none"
  /\ UNCHANGED <<isCheckingForUpdate, lastUpdateCheckResult>>

\* autoUpdater.downloadUpdate(): without update info from an available check
\* the updater emits 'error' and rejects; otherwise the download starts.
downloadUpdate ==
  IF ~upd.hasInfo
  THEN /\ calls' = <<>> /\ emitted' = "error"
       /\ OnError
       /\ reply' = Msg("throw")
       /\ UNCHANGED <<upd, obs>>
  ELSE /\ upd' = [upd EXCEPT !.dl = "downloading", !.pct = 0]
       /\ obs' = [obs EXCEPT !.percent = 0]
       /\ reply' = NoReply
       /\ calls' = <<>> /\ emitted' = "none" /\ sent' = "none"
       /\ UNCHANGED <<isCheckingForUpdate, lastUpdateCheckResult>>

\* ipcMain.handle('update:download')
UpdateDownload ==
  /\ app = "running"
  /\ OpenWindows(runs) # {}
  /\ IF UpdatesDisabledForAction
     THEN /\ reply' = Msg("Updates only available in production")
          /\ calls' = <<>> /\ emitted' = "none" /\ sent' = "none"
          /\ UNCHANGED updater
     ELSE downloadUpdate
  /\ act' = "update:download"
  /\ UNCHANGED <<config, view, hw, app, exitCode, proc, tempDir, mainWindow, runs, timers>>

\* a 'download-progress' handler that sends what remains instead of what is
\* done
OnDownloadProgressRemaining(p) ==
  /\ sent' = Channel("download-progress")
  /\ obs' = [obs EXCEPT !.percent = IF mainWindow = Window THEN MaxPct - p ELSE @]

\* autoUpdater.on('download-progress', progressObj): percent: progressObj.percent
\* is sent to the window if there is one; obs.percent is the percent last sent
\* in this download.
OnDownloadProgress(p) ==
  /\ sent' = Channel("download-progress")
  /\ obs' = [obs EXCEPT !.percent = IF mainWindow = Window THEN p ELSE @]

\* The updater reports progress of the running download: percent p, never
\* below what it reported before.
DownloadProgress(p) ==
  /\ app = "running"
  /\ upd.dl = "downloading"
  /\ p >= upd.pct
  /\ upd' = [upd EXCEPT !.pct = p]
  /\ calls' = <<>> /\ emitted' = "download-progress"
  /\ OnDownloadProgress(p)
  /\ reply' = NoReply
  /\ act' = "downloadProgress"
  /\ UNCHANGED <<config, view, hw, app, exitCode, proc, tempDir, mainWindow, runs, timers,
                 isCheckingForUpdate, lastUpdateCheckResult>>

\* an 'update-downloaded' handler that installs at once (quitAndInstall)
OnUpdateDownloadedInstalls(u) == [u EXCEPT !.installed = "explicit"]

\* autoUpdater.on('update-downloaded'): the handler sends update-downloaded
\* to the window and asks nothing of the updater; u is the updater's state.
OnUpdateDownloaded(u) == u

\* The download settles: update-downloaded and {success: true}, or the
\* updater's 'error' event and a rejection. No download is running any more
\* and its percent is forgotten.
DownloadSettles(ok) ==
  /\ app = "running"
  /\ upd.dl = "downloading"
  /\ IF ok
     THEN /\ calls' = <<>> /\ emitted' = "update-downloaded"
          /\ upd' = OnUpdateDownloaded([upd EXCEPT !.dl = "downloaded", !.pct = 0])
          /\ sent' = Channel("update-downloaded")
          /\ reply' = Msg("success")
          /\ UNCHANGED <<isCheckingForUpdate, lastUpdateCheckResult>>
     ELSE /\ calls' = <<>> /\ emitted' = "error"
          /\ upd' = [upd EXCEPT !.dl = "none", !.pct = 0]
          /\ OnError
          /\ reply' = Msg("throw")
  /\ obs' = [obs EXCEPT !.percent = 0]
  /\ act' = "downloadSettles"
  /\ UNCHANGED <<config, view, hw, app, exitCode, proc, tempDir, mainWindow, runs, timers>>

\* a quitAndInstall that quits and installs whatever the updater holds
quitAndInstallUnguarded(ob, os) ==
  /\ Quit(runs, World(<<>>), [upd EXCEPT !.installed = "explicit"], ob, os)
  /\ emitted' = "none" /\ sent' = "none"
  /\ UNCHANGED <<isCheckingForUpdate, lastUpdateCheckResult, obs>>

\* autoUpdater.quitAndInstall(false, true): with a downloaded update the
\* updater installs it and quits the app; without one it emits 'error' and
\* the app keeps running.
quitAndInstall(ob, os) ==
  IF upd.dl = "downloaded"
  THEN /\ Quit(runs, World(<<>>), [upd EXCEPT !.installed = "explicit"], ob, os)
       /\ emitted' = "none" /\ sent' = "none"
       /\ UNCHANGED <<isCheckingForUpdate, lastUpdateCheckResult, obs>>
  ELSE /\ calls' = <<>> /\ emitted' = "error"
       /\ OnError
       /\ UNCHANGED <<app, exitCode, proc, tempDir, mainWindow, runs, upd, obs>>

\* ipcMain.handle('update:install')
UpdateInstall(ob, os) ==
  /\ app = "running"
  /\ OpenWindows(runs) # {}
  /\ IF UpdatesDisabledForAction
     THEN /\ reply' = Msg("Updates only available in production")
          /\ calls' = <<>> /\ emitted' = "none" /\ sent' = "none"
          /\ UNCHANGED <<app, exitCode, proc, tempDir, mainWindow, runs, updater>>
     ELSE /\ quitAndInstall(ob, os)
          /\ reply' = NoReply
  /\ act' = "update:install"
  /\ UNCHANGED <<config, view, hw, timers>>

\* ipcMain.handle('update:getLastCheckResult'): return lastUpdateCheckResult
getLastCheckResult ==
  [kind |-> IF lastUpdateCheckResult.set THEN "lastResult" ELSE "null",
   available |-> lastUpdateCheckResult.available,
   version |-> lastUpdateCheckResult.version]

UpdateGetLastCheckResult ==
  /\ app = "running"
  /\ OpenWindows(runs) # {}
  /\ reply' = getLastCheckResult
  /\ calls' = <<>> /\ emitted' = "none" /\ sent' = "none"
  /\ act' = "update:getLastCheckResult"
  /\ UNCHANGED <<config, view, hw, app, exitCode, proc, tempDir, mainWindow, runs, timers, updater>>

\* ------------------------------------------- the update notice (renderer)
\* UpdateNotification keeps updateInfo, updateReady and error; the notice is
\* rendered when one of them is set. The steps below are the component's
\* callbacks; a listener runs on the message the main process sent last.

\* a dismissal that also makes the main process forget the retained result
handleDismissForgets ==
  /\ view' = NoView
  /\ lastUpdateCheckResult' = NoResult
  /\ UNCHANGED <<isCheckingForUpdate, upd, obs>>

\* handleDismiss: setUpdateInfo(null); setUpdateReady(false); setError(null).
\* Nothing is invoked on window.electron.
handleDismiss ==
  /\ view' = NoView
  /\ UNCHANGED updater

\* The user clicks the notice's dismiss button
Dismiss ==
  /\ app = "running"
  /\ mainWindow = Window
  /\ view # NoView
  /\ handleDismiss
  /\ calls' = <<>> /\ emitted' = "none" /\ sent' = "none" /\ reply' = NoReply
  /\ act' = "handleDismiss"
  /\ UNCHANGED <<config, hw, app, exitCode, proc, tempDir, mainWindow, runs, timers>>

\* checkForExistingUpdate, run by the effect when the component mounts and
\* again whenever isOnline changes: the retained result is fetched and, if it
\* says available, shown.
checkForExistingUpdate ==
  /\ app = "running"
  /\ mainWindow = Window
  /\ reply' = getLastCheckResult
  /\ view' = IF lastUpdateCheckResult.set /\ lastUpdateCheckResult.available
             THEN [view EXCEPT !.updateInfo = lastUpdateCheckResult.version]
             ELSE view
  /\ calls' = <<>> /\ emitted' = "none" /\ sent' = "none"
  /\ act' = "checkForExistingUpdate"
  /\ UNCHANGED <<config, hw, app, exitCode, proc, tempDir, mainWindow, runs, timers, updater>>

\* The listeners: onUpdateAvailable (setUpdateInfo(info); setError(null)),
\* onUpdateDownloaded (setUpdateReady(true)), onUpdateError (setError).
Heard(ch) ==
  /\ app = "running"
  /\ mainWindow = Window
  /\ sent = ch
  /\ view' = CASE ch = "update-available" ->
                    [view EXCEPT !.updateInfo = lastUpdateCheckResult.version,
                                 !.error = FALSE]
               [] ch = "update-downloaded" -> [view EXCEPT !.updateReady = TRUE]
               [] ch = "update-error" -> [view EXCEPT !.error = TRUE]
  /\ calls' = <<>> /\ emitted' = "none" /\ sent' = "none" /\ reply' = NoReply
  /\ act' = "heard"
  /\ UNCHANGED <<config, hw, app, exitCode, proc, tempDir, mainWindow, runs, timers, updater>>

\* handleDownload: setError(null); await update.downloadUpdate(), i.e. the
\* update:download handler; a rejection is shown as the error.
handleDownload ==
  /\ app = "running"
  /\ mainWindow = Window
  /\ view.updateInfo # 0
  /\ IF UpdatesDisabledForAction
     THEN /\ reply' = Msg("Updates only available in production")
          /\ calls' = <<>> /\ emitted' = "none" /\ sent' = "none"
          /\ UNCHANGED updater
     ELSE downloadUpdate
  /\ view' = [view EXCEPT !.error = reply'.kind # "none"]
  /\ act' = "handleDownload"
  /\ UNCHANGED <<config, hw, app, exitCode, proc, tempDir, mainWindow, runs, timers>>

\* ------------------------------------------------- hardware fingerprint
\* One wmic query as the OS answers it: the command fails (execSync throws),
\* or prints the given lines, each padded and ended the way wmic does,
\* followed by a blank line.
Throws == [throws |-> TRUE, lines |-> <<>>, eol |-> <<>>, pad |-> <<>>]
Out(lines, eol, pad) == [throws |-> FALSE, lines |-> lines, eol |-> eol, pad |-> pad]

RECURSIVE RenderLines(_, _, _)
RenderLines(lines, eol, pad) ==
  IF lines = <<>> THEN <<>>
  ELSE Head(lines) \o pad \o eol \o RenderLines(Tail(lines), eol, pad)

\* execSync(cmd).toString() for a command that succeeded
execSync(o) == RenderLines(o.lines, o.eol, o.pad) \o o.eol

UuidHeader == <<"U", "U", "I", "D">>
SerialHeader == <<"S", "e", "r", "i", "a", "l">>
MacHeader == <<"M", "A", "C">>

UuidOutcomes ==
  {Throws,
   Out(<<UuidHeader>>, <<"\r", "\n">>, <<" ", " ">>),
   Out(<<UuidHeader, <<"4", "C", "-", "9", "a">> >>, <<"\r", "\r", "\n">>, <<" ", " ">>)}

BaseboardOutcomes ==
  {Throws,
   Out(<<>>, <<>>, <<>>),
   Out(<<SerialHeader, <<"T", "o", " ", "B", "e">> >>, <<"\n">>, <<>>)}

MacOutcomes ==
  {Throws,
   Out(<<MacHeader>>, <<"\n">>, <<"\t">>),
   Out(<<MacHeader, <<"0", "0", ":", "1", "A">>, <<"0", "0", ":", "2", "B">> >>,
       <<"\r", "\n">>, <<" ">>)}

FieldOrder == <<"uuid", "baseboard", "mac">>

\* the answers to the three queries; wmic exists on Windows only, elsewhere
\* every execSync throws
Queries ==
  {q \in [uuid : UuidOutcomes, baseboard : BaseboardOutcomes, mac : MacOutcomes] :
      platform # "win32" => \A i \in DOMAIN FieldOrder : q[FieldOrder[i]].throws}

\* raw.split(/\r?\n/)
RECURSIVE Split(_, _)
Split(s, cur) ==
  IF s = <<>> THEN <<cur>>
  ELSE IF Head(s) = "\n" THEN <<cur>> \o Split(Tail(s), <<>>)
  ELSE IF Head(s) = "\r" /\ Len(s) >= 2 /\ s[2] = "\n"
       THEN <<cur>> \o Split(SubSeq(s, 3, Len(s)), <<>>)
  ELSE Split(Tail(s), Append(cur, Head(s)))

WhiteSpace == {" ", "\t", "\r", "\n"}

\* String.prototype.trim
RECURSIVE TrimStart(_)
TrimStart(s) ==
  IF s # <<>> /\ Head(s) \in WhiteSpace THEN TrimStart(Tail(s)) ELSE s

RECURSIVE TrimEnd(_)
TrimEnd(s) ==
  IF s # <<>> /\ s[Len(s)] \in WhiteSpace THEN TrimEnd(SubSeq(s, 1, Len(s) - 1)) ELSE s

Trim(s) == TrimEnd(TrimStart(s))

\* raw.split(/\r?\n/).map(s => s.trim()).filter(Boolean)[1] || ''
SecondLine(raw) ==
  LET split == Split(raw, <<>>)
      lines == SelectSeq([i \in DOMAIN split |-> Trim(split[i])], LAMBDA l : l # <<>>)
  IN IF Len(lines) >= 2 THEN lines[2] ELSE <<>>

\* one try/catch around all three queries: a failure leaves the later fields
\* at ''
QuerySharedTry(q, i) ==
  IF \E j \in 1..i : q[FieldOrder[j]].throws THEN <<>>
  ELSE SecondLine(execSync(q[FieldOrder[i]]))

\* one try { ... } catch block of getHardwareInfo: the i-th field
Query(q, i) ==
  IF q[FieldOrder[i]].throws THEN <<>> ELSE SecondLine(execSync(q[FieldOrder[i]]))

\* the console.warn of each catch block that ran
HardwareLog(q) ==
  SelectSeq([i \in DOMAIN FieldOrder |->
                IF q[FieldOrder[i]].throws THEN "warn: failed to get " \o FieldOrder[i]
                ELSE ""],
            LAMBDA c : c # "")

CharCode ==
  [c \in {"0", "1", "2", "4", "9", "A", "B", "C", "T", "a", "e", "o", "-", ":", " ", "|",
          "3", "5", "6", "7", "8", "D", "E", "F", "b", "c", "d", "f"} |->
     CASE c = " " -> 32 [] c = "-" -> 45 [] c = "0" -> 48 [] c = "1" -> 49
       [] c = "2" -> 50 [] c = "3" -> 51 [] c = "4" -> 52 [] c = "5" -> 53
       [] c = "6" -> 54 [] c = "7" -> 55 [] c = "8" -> 56 [] c = "9" -> 57
       [] c = ":" -> 58 [] c = "A" -> 65 [] c = "B" -> 66 [] c = "C" -> 67
       [] c = "D" -> 68 [] c = "E" -> 69 [] c = "F" -> 70 [] c = "T" -> 84
       [] c = "a" -> 97 [] c = "b" -> 98 [] c = "c" -> 99 [] c = "d" -> 100
       [] c = "e" -> 101 [] c = "f" -> 102 [] c = "o" -> 111 [] c = "|" -> 124]

HexDigits == <<"0", "1", "2", "3", "4", "5", "6", "7", "8", "9", "a", "b", "c", "d", "e", "f">>

\* crypto.createHash('sha256').update(s).digest('hex'). SHA-256 itself is
\* replaced by a small digest with the properties the handlers rely on: a
\* function of the bytes of s alone, 64 lower-case hexadecimal digits.
RECURSIVE Absorb(_, _)
Absorb(s, h) ==
  IF s = <<>> THEN h ELSE Absorb(Tail(s), (h * 31 + CharCode[Head(s)]) % 65521)

Sha256Hex(s) ==
  LET h == Absorb(s, 7)
  IN [i \in 1..64 |-> HexDigits[((((h + 13 * i) * 25173) % 65536) \div 4096) + 1]]

LowerCase == <<"a", "b", "c", "d", "e", "f", "g", "h", "i", "j", "k", "l", "m",
               "n", "o", "p", "q", "r", "s", "t", "u", "v", "w", "x", "y", "z">>
UpperCase == <<"A", "B", "C", "D", "E", "F", "G", "H", "I", "J", "K", "L", "M",
               "N", "O", "P", "Q", "R", "S", "T", "U", "V", "W", "X", "Y", "Z">>

\* String.prototype.toUpperCase
ToUpperCase(s) ==
  [i \in DOMAIN s |->
     IF \E k \in DOMAIN LowerCase : LowerCase[k] = s[i]
     THEN UpperCase[CHOOSE k \in DOMAIN LowerCase : LowerCase[k] = s[i]]
     ELSE s[i]]

\* String.prototype.substring(0, n)
Substring(s, n) == SubSeq(s, 1, IF Len(s) < n THEN Len(s) ELSE n)

getHardwareInfo(q) ==
  LET uuid == Query(q, 1)
      baseboard == Query(q, 2)
      mac == Query(q, 3)
      fingerprint == uuid \o <<"|">> \o baseboard \o <<"|">> \o mac
  IN [uuid |-> uuid, baseboard |-> baseboard, mac |-> mac,
      fingerprint |-> fingerprint, fpHash |-> Sha256Hex(fingerprint)]

\* the answers and the id of the latest hardware:getId call so far
LastIdQuery == IF hw.op = "getId" THEN hw.q ELSE hw.prevq
LastId == IF hw.op = "getId" THEN hw.id ELSE hw.previd

\* a handler that mixes the id it returned last into the digest
hardwareIdSalted(hwInfo) ==
  ToUpperCase(Substring(Sha256Hex(hwInfo.fingerprint \o LastId), 16))

\* hwInfo.fpHash.substring(0, 16).toUpperCase()
hardwareId(hwInfo) == ToUpperCase(Substring(hwInfo.fpHash, 16))

NoQuery == [uuid |-> Throws, baseboard |-> Throws, mac |-> Throws]
NoInfo == [uuid |-> <<>>, baseboard |-> <<>>, mac |-> <<>>, fingerprint |-> <<>>,
           fpHash |-> <<>>]

\* Nothing asked yet. op: the handler that ran last; q, info: the answers it
\* got and the record getHardwareInfo built from them; id: what it returned
\* when it was hardware:getId; prevq, previd: the answers and the id of the
\* latest hardware:getId call before it.
NoHardware == [op |-> "none", q |-> NoQuery, info |-> NoInfo, id |-> <<>>,
               prevq |-> NoQuery, previd |-> <<>>]

HardwareReply == [kind |-> "hardware", available |-> FALSE, version |-> 0]

\* the renderer invokes an IPC channel: there is a window to invoke it from
RendererExists == \E run \in BagToSet(runs) : IsOpen(run)

\* ipcMain.handle('hardware:getInfo'): returns the whole record
HardwareGetInfo(q) ==
  /\ app = "running"
  /\ RendererExists
  /\ hw' = [op |-> "getInfo", q |-> q, info |-> getHardwareInfo(q), id |-> <<>>,
            prevq |-> LastIdQuery, previd |-> LastId]
  /\ calls' = HardwareLog(q) \o <<"console.log">>
  /\ act' = "hardware:getInfo" /\ emitted' = "none" /\ sent' = "none"
  /\ reply' = HardwareReply
  /\ UNCHANGED <<config, view, app, exitCode, proc, tempDir, mainWindow, runs, timers, updater>>

\* ipcMain.handle('hardware:getId'): returns the 16-character id
HardwareGetId(q) ==
  /\ app = "running"
  /\ RendererExists
  /\ LET hwInfo == getHardwareInfo(q)
     IN hw' = [op |-> "getId", q |-> q, info |-> hwInfo, id |-> hardwareId(hwInfo),
               prevq |-> LastIdQuery, previd |-> LastId]
  /\ calls' = HardwareLog(q)
  /\ act' = "hardware:getId" /\ emitted' = "none" /\ sent' = "none"
  /\ reply' = HardwareReply
  /\ UNCHANGED <<config, view, app, exitCode, proc, tempDir, mainWindow, runs, timers, updater>>

\* -------------------------------------------------------------- the system

Init ==
  /\ isPackaged \in BOOLEAN
  /\ isDev \in BOOLEAN
  /\ platform \in Platforms
  /\ app = "running"
  /\ exitCode = <<>>
  /\ tempDir \in [DOMAIN TempNames -> TempKinds]
  /\ hw = NoHardware
  /\ proc = [k \in Kinds |-> [slot |-> "none", alive |-> 0, dead |-> 0,
                               kids |-> FALSE, strays |-> 0]]
  /\ runs = EmptyBag
  /\ mainWindow = Undefined
  /\ timers = 0
  /\ isCheckingForUpdate = FALSE
  /\ lastUpdateCheckResult = NoResult
  /\ upd = [checking |-> FALSE, callers |-> 0, hasInfo |-> FALSE, dl |-> "none",
            pct |-> 0, installed |-> "no"]
  /\ view = NoView
  /\ obs = [check |-> "none", everAvailable |-> FALSE, unseen |-> FALSE, percent |-> 0,
            outcome |-> NoResult]
  /\ act = "init"
  /\ calls = <<>>
  /\ emitted = "none"
  /\ sent = "none"
  /\ reply = NoReply

\* What a kill of the process in slot k can come to: any outcome for a running
\* process; for a slot holding none, or one that has exited, nothing is killed.
KillChoices(k) == IF proc[k].slot = "alive" THEN KillOutcomes ELSE {"none"}

\* Steps of the supervisor, the readiness gate and the window life cycle,
\* with every outcome of spawn, kill and probe the environment can produce.
StartupNext ==
  \/ \E ok \in BOOLEAN : WhenReady(ok)
  \/ \E ok \in BOOLEAN : Activate(ok)
  \/ \E run \in BagToSet(runs), how \in {"absent", "throws", "failed", "spawned"} :
        BackendDelayElapsed(run, how)
  \/ \E run \in BagToSet(runs) : ScannerDelayElapsed(run)
  \/ \E run \in BagToSet(runs), res \in {"ok", "timeout"} : ScannerProbeDone(run, res)
  \/ \E run \in BagToSet(runs), res \in {"ok", "timeout"},
        ob \in KillChoices("backend"), os \in KillChoices("scanner") :
           BackendProbeDone(run, res, ob, os)
  \/ \E k \in Kinds, held \in BOOLEAN : ChildExit(k, held)
  \/ \E k \in Kinds, held \in BOOLEAN : ChildClosed(k, held)
  \/ \E run \in BagToSet(runs), ob \in KillChoices("backend"), os \in KillChoices("scanner") :
        WindowClosed(run, ob, os)
  \/ \E ob \in KillChoices("backend"), os \in KillChoices("scanner") : AppQuit(ob, os)
  \/ \E ob \in KillChoices("backend"), os \in KillChoices("scanner"), inst \in BOOLEAN :
        Signal(ob, os, inst)

\* The same steps with the children behaving: every spawn succeeds, no child
\* exits by itself and every kill works. The update coordinator reads none of
\* the supervisor's state, only the windows and the app's life.
QuietStartupNext ==
  \/ WhenReady(TRUE)
  \/ Activate(TRUE)
  \/ \E run \in BagToSet(runs) : BackendDelayElapsed(run, "spawned")
  \/ \E run \in BagToSet(runs) : ScannerDelayElapsed(run)
  \/ \E run \in BagToSet(runs) : ScannerProbeDone(run, "ok")
  \/ \E run \in BagToSet(runs), res \in {"ok", "timeout"} :
        BackendProbeDone(run, res, "first", "first")
  \/ \E run \in BagToSet(runs) : WindowClosed(run, "first", "first")
  \/ AppQuit("first", "first")
  \/ \E inst \in BOOLEAN : Signal("first", "first", inst)

\* Steps of the update coordinator
UpdateNext ==
  \/ \E run \in BagToSet(runs) : DidFinishLoad(run)
  \/ TimerCheck
  \/ UpdateCheck
  \/ \E res \in {0} \cup RemoteVersions : CheckSettles(res)
  \/ UpdateDownload
  \/ \E p \in 1..MaxPct : DownloadProgress(p)
  \/ \E ok \in BOOLEAN : DownloadSettles(ok)
  \/ UpdateInstall("first", "first")
  \/ UpdateGetLastCheckResult

\* Steps of the hardware-id handlers
HardwareSteps ==
  \/ \E q \in Queries : HardwareGetInfo(q)
  \/ \E q \in Queries : HardwareGetId(q)

\* One start-up whose spawns succeed, children that fork helpers, and every
\* way of stopping them with every outcome of the kill calls
TreeNext ==
  \/ WhenReady(TRUE)
  \/ \E run \in BagToSet(runs) : BackendDelayElapsed(run, "spawned")
  \/ \E run \in BagToSet(runs) : ScannerDelayElapsed(run)
  \/ \E run \in BagToSet(runs) : ScannerProbeDone(run, "ok")
  \/ \E run \in BagToSet(runs), res \in {"ok", "timeout"},
        ob \in KillChoices("backend"), os \in KillChoices("scanner") :
           BackendProbeDone(run, res, ob, os)
  \/ \E k \in Kinds : ChildFork(k)
  \/ \E run \in BagToSet(runs), ob \in KillChoices("backend"), os \in KillChoices("scanner") :
        WindowClosed(run, ob, os)
  \/ \E ob \in KillChoices("backend"), os \in KillChoices("scanner") : AppQuit(ob, os)
  \/ \E ob \in KillChoices("backend"), os \in KillChoices("scanner"), inst \in BOOLEAN :
        Signal(ob, os, inst)

\* Steps of the update notice in the window
NoticeSteps ==
  \/ checkForExistingUpdate
  \/ \E ch \in {"update-available", "update-downloaded", "update-error"} : Heard(ch)
  \/ handleDownload
  \/ Dismiss

Next ==
  \/ StartupNext \/ UpdateNext \/ HardwareSteps \/ NoticeSteps
  \/ \E k \in Kinds : ChildFork(k)

\* The whole main process
Spec == Init /\ [][Next]_vars

\* The supervisor and the readiness gate on their own; they read isPackaged
\* and the platform, never NODE_ENV.
\* and the temp directory holds one removable extraction directory
TempSample == <<"dir", "absent", "file", "absent">>

InitSupervisor == Init /\ ~isDev /\ tempDir = TempSample

SpecSupervisor == InitSupervisor /\ [][StartupNext]_vars

\* Start-up, windows and children with every spawn outcome and children
\* that exit by themselves; the kill calls succeed
RunNext ==
  \/ \E ok \in BOOLEAN : WhenReady(ok)
  \/ \E ok \in BOOLEAN : Activate(ok)
  \/ \E run \in BagToSet(runs), how \in {"absent", "throws", "failed", "spawned"} :
        BackendDelayElapsed(run, how)
  \/ \E run \in BagToSet(runs) : ScannerDelayElapsed(run)
  \/ \E run \in BagToSet(runs), res \in {"ok", "timeout"} : ScannerProbeDone(run, res)
  \/ \E run \in BagToSet(runs), res \in {"ok", "timeout"} :
        BackendProbeDone(run, res, "first", "first")
  \/ \E k \in Kinds, held \in BOOLEAN : ChildExit(k, held)
  \/ \E k \in Kinds, held \in BOOLEAN : ChildClosed(k, held)
  \/ \E run \in BagToSet(runs) : WindowClosed(run, "first", "first")
  \/ AppQuit("first", "first")
  \/ \E inst \in BOOLEAN : Signal("first", "first", inst)

\* The scheduling the code sets up: app.whenReady() resolves, each
\* setTimeout callback (3000 ms in startBackend, 1500 ms in
\* startScannerService) runs, and each waitOn settles, with the resource up
\* or by its timeout (15000 ms, 30000 ms). Nothing obliges the user to
\* close a window, click the dock icon or quit, nor a child to exit.
StartupFairness ==
  /\ WF_vars(\E ok \in BOOLEAN : WhenReady(ok))
  /\ WF_vars(\E run \in BagToSet(runs), how \in {"absent", "throws", "failed", "spawned"} :
                BackendDelayElapsed(run, how))
  /\ WF_vars(\E run \in BagToSet(runs) : ScannerDelayElapsed(run))
  /\ WF_vars(\E run \in BagToSet(runs), res \in {"ok", "timeout"} : ScannerProbeDone(run, res))
  /\ WF_vars(\E run \in BagToSet(runs), res \in {"ok", "timeout"} :
                BackendProbeDone(run, res, "first", "first"))

\* on macOS, where windows are closed and re-created while the process lives,
\* and in a packaged build, where the scanner may also be absent
InitStartupFair == InitSupervisor /\ isPackaged /\ platform = "darwin"

SpecStartupFair == InitStartupFair /\ [][RunNext]_vars /\ StartupFairness

\* Stopping the children and what they forked
SpecTree == InitSupervisor /\ [][TreeNext]_vars

\* The janitor: the temp directory in any state, and the handlers that clean
\* it before any window exists
InitJanitor == Init /\ isPackaged /\ ~isDev /\ platform = "win32"

JanitorNext ==
  \/ WhenReady(TRUE)
  \/ AppQuit("first", "first")
  \/ Signal("first", "first", FALSE)

SpecJanitor == InitJanitor /\ [][JanitorNext]_vars

\* The hardware handlers, once a start-up without failures has put up a
\* window
InitHardware == Init /\ isPackaged /\ ~isDev /\ tempDir = TempSample

HardwareNext ==
  \/ WhenReady(TRUE)
  \/ \E run \in BagToSet(runs) : BackendDelayElapsed(run, "spawned")
  \/ \E run \in BagToSet(runs) : ScannerDelayElapsed(run)
  \/ \E run \in BagToSet(runs) : ScannerProbeDone(run, "ok")
  \/ \E run \in BagToSet(runs) : BackendProbeDone(run, "ok", "first", "first")
  \/ HardwareSteps

SpecHardware == InitHardware /\ [][HardwareNext]_vars

\* The update coordinator over a well-behaved start-up
InitUpdater == Init /\ tempDir = TempSample

SpecUpdater == InitUpdater /\ [][QuietStartupNext \/ UpdateNext]_vars

\* The update notice of one window next to the update coordinator
InitNotice == Init /\ isPackaged /\ platform = "win32" /\ tempDir = TempSample

NoticeNext ==
  \/ WhenReady(TRUE)
  \/ \E run \in BagToSet(runs) : BackendDelayElapsed(run, "spawned")
  \/ \E run \in BagToSet(runs) : ScannerDelayElapsed(run)
  \/ \E run \in BagToSet(runs) : ScannerProbeDone(run, "ok")
  \/ \E run \in BagToSet(runs) : BackendProbeDone(run, "ok", "first", "first")
  \/ \E run \in BagToSet(runs) : DidFinishLoad(run)
  \/ TimerCheck
  \/ \E res \in {0} \cup RemoteVersions : CheckSettles(res)
  \/ \E p \in 1..MaxPct : DownloadProgress(p)
  \/ \E ok \in BOOLEAN : DownloadSettles(ok)
  \/ UpdateGetLastCheckResult
  \/ NoticeSteps

SpecNotice == InitNotice /\ [][NoticeNext]_vars

\* Windows closed and re-opened from the dock: a well-behaved start-up on
\* macOS with up to MaxDockRuns createWindow runs
InitDock == Init /\ isPackaged /\ ~isDev /\ platform = "darwin" /\ tempDir = TempSample

DockNext ==
  \/ WhenReady(TRUE)
  \/ ActivateWithin(TRUE, MaxDockRuns)
  \/ \E run \in BagToSet(runs) : BackendDelayElapsed(run, "spawned")
  \/ \E run \in BagToSet(runs) : ScannerDelayElapsed(run)
  \/ \E run \in BagToSet(runs) : ScannerProbeDone(run, "ok")
  \/ \E run \in BagToSet(runs) : BackendProbeDone(run, "ok", "first", "first")
  \/ \E run \in BagToSet(runs) : WindowClosed(run, "first", "first")
  \/ \E k \in Kinds : ChildClosed(k, FALSE)

SpecDock == InitDock /\ [][DockNext]_vars

\* ------------------------------------------------------------------ claims
StopAllSteps == {"windowAllClosed", "quit", "signal", "fatal"}
CheckSteps == {"timerCheck", "update:check"}


\* C1: in every createWindow run the window has been created if and only if
\* the backend health probe of that run succeeded; a run whose probe timed
\* out never has a window. (SpecSupervisor)
C1_WindowIffBackendReady ==
  \A run \in BagToSet(runs) : (run.win # "none") <=> (run.probe = "ok")

\* a run that got its window after a successful probe next to a run whose
\* probe timed out and which has none
C1_Witness ==
  \E r1, r2 \in BagToSet(runs) :
     /\ r1.probe = "ok" /\ r1.win # "none"
     /\ r2.probe = "timeout" /\ r2.win = "none"

\* C2: after any handler that calls cleanupProcesses() has run, no backend
\* or scanner process the supervisor started is alive, kill failures
\* included. (SpecSupervisor; the code does not keep this)
C2_NoneAliveAfterStopAll ==
  act \in StopAllSteps => Alive("backend") = 0 /\ Alive("scanner") = 0

\* C3: at most one checkForUpdates() call is awaiting the updater at any
\* time; a call made during a check never reaches the updater.
\* (SpecUpdater; the code does not keep this)
C3_AtMostOneCheckInFlight == upd.callers <= 1

\* C4: at most one backend and at most one scanner process are alive in
\* every reachable state. (SpecSupervisor; the code does not keep this)
C4_AtMostOnePerKind == \A k \in Kinds : Alive(k) <= 1

Returned(r) ==
  [kind |-> IF r.set THEN "lastResult" ELSE "null",
   available |-> r.available, version |-> r.version]

\* C6: after every step the retained result is the outcome of the last check
\* that completed (with or without a window to tell), and
\* update:getLastCheckResult returns exactly that value in the step it is
\* asked, leaving the updater, the in-flight flag and the retained result as
\* they are. (SpecUpdater)
C6_RetainedIsLatestOutcome ==
  [][/\ lastUpdateCheckResult' = obs'.outcome
     /\ act' = "update:getLastCheckResult" =>
           /\ reply' = Returned(obs.outcome)
           /\ UNCHANGED <<upd, isCheckingForUpdate, lastUpdateCheckResult>>]_vars

\* the query answered while another check is in flight, with a
\* not-available result that replaced an older update-available one and was
\* recorded while no window existed
C6_Witness ==
  /\ act = "update:getLastCheckResult"
  /\ upd.checking
  /\ reply.kind = "lastResult" /\ ~reply.available
  /\ obs.everAvailable
  /\ obs.unseen

\* C7: a step in which the updater emits 'error' leaves the in-flight flag
\* cleared and the retained result as it was, and sends update-error to the
\* window when there is one. (SpecUpdater)
C7_ErrorKeepsResult ==
  [][emitted' = "error" =>
        /\ isCheckingForUpdate' = FALSE
        /\ lastUpdateCheckResult' = lastUpdateCheckResult
        /\ sent' = IF mainWindow' = Window THEN "update-error" ELSE "none"]_vars

\* a check that failed after an earlier check had retained an available result
C7_Witness ==
  /\ act = "checkSettles"
  /\ emitted = "error"
  /\ sent = "update-error"
  /\ ~isCheckingForUpdate
  /\ lastUpdateCheckResult.set /\ lastUpdateCheckResult.available

\* C8: the updater goes into `downloading` only in an update:download step;
\* no check result, timer or other event starts a download. (SpecUpdater)
C8_DownloadOnlyOnRequest ==
  [][(upd'.dl = "downloading" /\ upd.dl # "downloading") => act' = "update:download"]_vars

\* an explicit request that started the download of an update the last
\* check reported
C8_Witness ==
  /\ act = "update:download"
  /\ upd.dl = "downloading"
  /\ obs.check = "available"
  /\ reply = NoReply

\* C9 as stated: an update is installed only by update:install.
\* (SpecUpdater; violated)
C9_InstallOnlyOnRequest == upd.installed # "no" => act = "update:install"

\* C9: a downloaded update is installed either by update:install or, with
\* autoInstallOnAppQuit, by the updater when the app quits after the
\* download has finished; never while the app keeps running and never
\* without a finished download. (SpecUpdater)
C9_InstallOnRequestOrQuit ==
  /\ upd.installed # "no" => app = "exited" /\ upd.dl = "downloaded"
  /\ upd.installed = "explicit" => act = "update:install"
  /\ upd.installed = "onQuit" => act \in StopAllSteps

\* the app quit without update:install after a download had finished, and
\* the update was installed on the way out
C9_Witness ==
  /\ upd.installed = "onQuit"
  /\ act \in {"quit", "windowAllClosed"}
  /\ app = "exited"

\* C10: when the app is not packaged or NODE_ENV is development, no call
\* reaches the updater: checks answer 'Development mode', nothing is
\* downloaded or installed. (SpecUpdater; the code does not keep this)
C10_DisabledOutsideProduction ==
  (~isPackaged \/ isDev) =>
     /\ upd.callers = 0 /\ ~upd.checking
     /\ upd.dl = "none" /\ upd.installed = "no"
     /\ act \in CheckSteps => reply = Msg("Development mode")

\* positions of call c in the log of the last step
At(c) == {i \in 1..Len(calls) : calls[i] = c}

\* C11: when the backend health probe times out, the error box is shown, the
\* run gets no window, and the process ends with a non-zero exit status.
\* (SpecSupervisor; the code does not keep this)
C11_FatalExitsNonZero ==
  act = "fatal" =>
     /\ 1 \in At("showErrorBox")
     /\ \A run \in BagToSet(runs) : run.probe = "timeout" => run.win = "none"
     /\ app = "exited"
     /\ exitCode \notin {<<>>, <<0>>}

\* C12: when no scanner entrypoint is found, startScannerService resolves
\* (the run goes on to the scanner probe) and leaves the process slots as
\* they were; a scanner probe that times out is logged and nothing more; and
\* a run whose scanner probe failed has its window once its backend probe
\* succeeded. (SpecSupervisor)
C12_AbsentScannerTolerated ==
  [][/\ (act' = "startScannerService" /\ calls' = <<"warn: scanner not bundled">>) =>
           /\ proc' = proc
           /\ app' = "running"
           /\ \E run \in BagToSet(runs) :
                 /\ run.pc = "backendDelay"
                 /\ runs' = Replace(runs, run, [run EXCEPT !.pc = "scannerProbe"])
     /\ act' = "scannerProbe" =>
           /\ app' = "running" /\ proc' = proc /\ mainWindow' = mainWindow
           /\ calls' \in {<<>>, <<"warn: scanner did not start">>}
     /\ \A run \in BagToSet(runs') :
           (run.sprobe = "timeout" /\ run.probe = "ok") => run.win # "none"]_vars

\* the entrypoint is found missing with the scanner slot empty, next to a
\* run that got its window although its scanner probe had timed out
C12_Witness ==
  /\ act = "startScannerService"
  /\ calls = <<"warn: scanner not bundled">>
  /\ scannerProcess = "none"
  /\ \E run \in BagToSet(runs) :
        run.sprobe = "timeout" /\ run.probe = "ok" /\ run.win # "none"

\* C13: whenever the process has ended, whichever handler ended it (fatal
\* start-up, window-all-closed, an ordinary quit, a signal, update:install),
\* that handler's step called cleanupProcesses() and after it
\* cleanupTempFolders() at least once. (SpecUpdater)
C13_TeardownBeforeExit ==
  app = "exited" =>
     \E i \in At("cleanupProcesses"), j \in At("cleanupTempFolders") : i < j

\* the install-and-relaunch quit, with both children running: they were
\* killed and the temp directory was cleaned on the way out
C13_Witness ==
  /\ act = "update:install"
  /\ app = "exited"
  /\ At("cleanupProcesses") # {} /\ At("cleanupTempFolders") # {}
  /\ Len(SelectSeq(calls, LAMBDA c : c = PlatformKill)) = 2

Has(cs, c) == \E i \in 1..Len(cs) : cs[i] = c

\* C14: a step that calls cleanupTempFolders, once or several times, leaves
\* every item as it was except the directories whose names start with _MEI
\* and that can be removed, which are gone; and a step that calls it right
\* after a step that called it leaves the temp directory as it found it.
\* (SpecJanitor)
C14_CleanupIdempotent ==
  [][Has(calls', "cleanupTempFolders") =>
        /\ \A i \in DOMAIN tempDir :
              tempDir'[i] = IF StartsWith(TempNames[i], MeiPrefix) /\ tempDir[i] = "dir"
                            THEN "absent" ELSE tempDir[i]
        /\ Has(calls, "cleanupTempFolders") => tempDir' = tempDir]_vars

\* a quit whose two cleanups ran back to back: the first removed one
\* extraction directory and failed on another, the second found only the one
\* it cannot remove, and the handler went on
C14_Witness ==
  /\ act = "quit"
  /\ calls = <<"app.quit",
               "cleanupProcesses", "cleanupTempFolders", "warn: failed to delete", "rmSync",
               "cleanupProcesses", "cleanupTempFolders", "warn: failed to delete">>
  /\ tempDir[1] = "locked" /\ tempDir[2] = "absent"

UpperHex == {"0", "1", "2", "3", "4", "5", "6", "7", "8", "9", "A", "B", "C", "D", "E", "F"}

\* C15: the id hardware:getId returns is 16 characters, each an upper-case
\* hexadecimal digit; it is the first 16 digits of the digest of
\* uuid|baseboard|mac as parsed from the three answers; and a call that got
\* the same three answers as the hardware:getId call before it returned the
\* same id, whatever was asked in between. (SpecHardware)
C15_IdIsFunctionOfQueries ==
  hw.op = "getId" =>
     /\ Len(hw.id) = 16
     /\ \A i \in DOMAIN hw.id : hw.id[i] \in UpperHex
     /\ hw.id = ToUpperCase(SubSeq(Sha256Hex(hw.info.uuid \o <<"|">> \o hw.info.baseboard
                                             \o <<"|">> \o hw.info.mac), 1, 16))
     /\ (hw.previd # <<>> /\ hw.prevq = hw.q) => hw.id = hw.previd

\* the same machine asked twice with all three answers present; the id has a
\* letter in it
C15_Witness ==
  /\ act = "hardware:getId"
  /\ hw.previd # <<>> /\ hw.prevq = hw.q
  /\ hw.info.uuid # <<>> /\ hw.info.baseboard # <<>> /\ hw.info.mac # <<>>
  /\ \E i \in DOMAIN hw.id : hw.id[i] \in {"A", "B", "C", "D", "E", "F"}

\* the value line the OS printed for a query, '' when it printed none
Printed(o) == IF o.throws \/ Len(o.lines) < 2 THEN <<>> ELSE o.lines[2]

\* C16: whichever of the three queries fail or print no value line, the
\* handler returns; each field is the first value line printed for it, or ''
\* when the query failed or printed none, whatever happened to the other two;
\* the fingerprint is uuid|baseboard|mac and the hash its digest.
\* (SpecHardware)
C16_FailedFieldsAreEmpty ==
  act \in {"hardware:getInfo", "hardware:getId"} =>
     /\ reply = HardwareReply
     /\ \A i \in DOMAIN FieldOrder :
           hw.info[FieldOrder[i]] = Printed(hw.q[FieldOrder[i]])
     /\ hw.info.fingerprint =
           hw.info.uuid \o <<"|">> \o hw.info.baseboard \o <<"|">> \o hw.info.mac
     /\ hw.info.fpHash = Sha256Hex(hw.info.fingerprint)
     /\ Len(hw.info.fpHash) = 64

\* the first query failed, the second printed nothing, the third answered
C16_Witness ==
  /\ act = "hardware:getInfo"
  /\ hw.q.uuid.throws
  /\ ~hw.q.baseboard.throws /\ hw.q.baseboard.lines = <<>>
  /\ hw.info.uuid = <<>> /\ hw.info.baseboard = <<>>
  /\ hw.info.mac = <<"0", "0", ":", "1", "A">>
  /\ hw.info.fingerprint = <<"|", "|", "0", "0", ":", "1", "A">>
  /\ calls = <<"warn: failed to get uuid", "console.log">>

\* C17: after a handler that stops the children has run, no backend or
\* scanner process and no helper process forked by one is alive. Stated here
\* for the stops in which no kill call failed. (SpecTree; the code does not
\* keep this)
C17_WholeTreeStopped ==
  (act \in StopAllSteps /\ ~Has(calls, "warn")) =>
     \A k \in Kinds : Alive(k) = 0 /\ Descendants(k) = 0

KillCalls == {"taskkill", "SIGTERM", "SIGKILL"}

Count(cs, c) == Len(SelectSeq(cs, LAMBDA x : x = c))

\* C21: the close / error handler of a child leaves the slot of its kind
\* empty and the other kind as it was; a step that spawns leaves the slot
\* holding the running process or, when the spawn failed, empty with the
\* close event of the failed handle still to come; and a handler that stops the children calls
\* killProcessTree once for each kind whose slot holds a handle and never for
\* a kind whose slot is empty. (SpecSupervisor)
C21_ExitedChildClearsSlot ==
  [][/\ act' = "childClosed" =>
           \E k \in Kinds :
              /\ proc'[k].slot = "none"
              /\ \A j \in Kinds \ {k} : proc'[j] = proc[j]
     /\ \A k \in Kinds :
           (act' \in {"whenReady", "activate", "startScannerService"} /\ proc'[k] # proc[k]) =>
              /\ proc'[k].slot \in {"alive", "none"}
              /\ proc'[k].slot = "none" => proc'[k].dead > proc[k].dead
     /\ act' \in StopAllSteps =>
           /\ Count(calls', "killProcessTree") =
                 Cardinality({k \in Kinds : proc[k].slot # "none"})
           /\ \A k \in Kinds : proc'[k].slot = "none"]_vars

\* the backend crashed and its close event was handled while the scanner
\* keeps running: the backend slot is empty, the scanner slot is not
C21_Witness ==
  /\ act = "childClosed"
  /\ backendProcess = "none" /\ Alive("backend") = 0 /\ proc["backend"].dead = 0
  /\ scannerProcess = "alive"

\* C22: a createWindow run begins by spawning the backend and touches the
\* scanner slot only in a later step, taken by a run whose backend start
\* delay has elapsed; whatever the scanner start does, the run goes on to
\* the scanner probe (directly or after the scanner's start delay) with the
\* application running; whatever the scanner probe answers, the run goes on
\* to the backend probe; and the fatal path is taken by a run at its backend
\* probe and by no other, so a run at its backend probe gets its window or
\* fails on the backend's answer alone. (SpecSupervisor)
C22_ScannerDoesNotGateWindow ==
  [][/\ BagCardinality(runs') > BagCardinality(runs) =>
           /\ act' \in {"whenReady", "activate"}
           /\ runs' = runs (+) SetToBag({NewRun})
           /\ proc'["scanner"] = proc["scanner"]
           /\ proc'["backend"] # proc["backend"]
     /\ act' = "startScannerService" =>
           /\ proc'["backend"] = proc["backend"]
           /\ app' = "running" /\ mainWindow' = mainWindow
           /\ \E run \in BagToSet(runs), pc \in {"scannerDelay", "scannerProbe"} :
                 /\ run.pc = "backendDelay"
                 /\ runs' = Replace(runs, run, [run EXCEPT !.pc = pc])
     /\ act' = "scannerProbe" =>
           /\ app' = "running"
           /\ \E run \in BagToSet(runs), res \in {"ok", "timeout"} :
                 /\ run.pc = "scannerProbe"
                 /\ runs' = Replace(runs, run,
                               [run EXCEPT !.pc = "backendProbe", !.sprobe = res])
     /\ act' \in {"windowCreated", "fatal"} =>
           \E run \in BagToSet(runs) :
              /\ run.pc = "backendProbe"
              /\ \E done \in BagToSet(runs') :
                    /\ done.pc = "done" /\ done.sprobe = run.sprobe
                    /\ done.probe = IF act' = "fatal" THEN "timeout" ELSE "ok"
                    /\ (done.win # "none") <=> (act' = "windowCreated")]_vars

\* the window is created in a run whose scanner never came up: its probe
\* timed out and the scanner slot is empty
C22_Witness ==
  /\ act = "windowCreated"
  /\ backendProcess = "alive" /\ scannerProcess = "none"
  /\ \E run \in BagToSet(runs) :
        run.win = "open" /\ run.sprobe = "timeout" /\ run.probe = "ok"

\* C23: no update check starts before a window's content has finished
\* loading: whenever a timer or an update:check request makes the updater
\* start a check, some window of this run of the application has loaded its
\* content (or had, before it was closed). (SpecUpdater)
C23_NoCheckBeforeLoad ==
  (act \in CheckSteps /\ emitted = "checking-for-update") =>
     \E run \in BagToSet(runs) : run.win \in {"loaded", "closed"}

\* C24: in a production build every timer that expires calls
\* checkForUpdates, whatever earlier checks found: it is answered 'Check in
\* progress' and leaves the updater alone exactly when isCheckingForUpdate
\* is set at that moment; otherwise the call reaches the updater, and when
\* the updater has no check outstanding a new check starts
\* (checking-for-update is emitted and the flag is set), also when the
\* retained result of an earlier check is available or not-available.
\* (SpecUpdater)
C24_TimersFireIndependently ==
  [][(act' = "timerCheck" /\ isPackaged) =>
        /\ timers' = timers - 1
        /\ lastUpdateCheckResult' = lastUpdateCheckResult
        /\ isCheckingForUpdate =>
              /\ reply' = Msg("Check in progress")
              /\ emitted' = "none" /\ upd' = upd
        /\ ~isCheckingForUpdate =>
              /\ reply' = NoReply
              /\ upd'.checking /\ upd'.callers = upd.callers + 1
              /\ ~upd.checking =>
                    emitted' = "checking-for-update" /\ isCheckingForUpdate']_vars

\* a timer started a new check although an earlier check had already
\* reported an available update
C24_Witness ==
  /\ act = "timerCheck" /\ emitted = "checking-for-update"
  /\ lastUpdateCheckResult.set /\ lastUpdateCheckResult.available
  /\ isCheckingForUpdate /\ upd.callers = 1

\* C25: a check that completes is classified the same way everywhere: the
\* value returned to the callers, the event broadcast and the retained
\* result all say available exactly when the remote version differs from
\* the running version, also when the remote version is the lower one.
\* (SpecUpdater; the code does not keep this)
C25_SameClassification ==
  (act = "checkSettles" /\ reply.kind = "result") =>
     /\ reply.available <=> (reply.version # CurrentVersion)
     /\ lastUpdateCheckResult.set /\ lastUpdateCheckResult.version = reply.version
     /\ lastUpdateCheckResult.available <=> reply.available
     /\ (emitted = "update-available") <=> reply.available

\* C26: dismissing the update notice changes the notice and nothing else:
\* the retained result, the in-flight flag and the updater are as before,
\* no updater event is emitted and nothing is sent; and when the component
\* next asks for the last check result (directly after the dismissal) it is
\* given the retained result as it was before the dismissal, so an
\* available update is shown again. (SpecNotice)
C26_DismissIsViewOnly ==
  [][/\ act' = "handleDismiss" =>
           /\ view' = NoView /\ view # NoView
           /\ UNCHANGED <<isCheckingForUpdate, lastUpdateCheckResult, upd, obs>>
           /\ UNCHANGED <<app, exitCode, proc, tempDir, runs, mainWindow, timers, hw>>
           /\ calls' = <<>> /\ emitted' = "none" /\ sent' = "none"
     /\ (act = "handleDismiss" /\ act' = "checkForExistingUpdate") =>
           /\ reply' = [kind |-> IF lastUpdateCheckResult.set THEN "lastResult" ELSE "null",
                        available |-> lastUpdateCheckResult.available,
                        version |-> lastUpdateCheckResult.version]
           /\ lastUpdateCheckResult' = lastUpdateCheckResult
           /\ lastUpdateCheckResult.available =>
                 view'.updateInfo = lastUpdateCheckResult.version]_vars

\* the notice of an available update was dismissed while a later check was
\* in flight: the result is still retained and the flag still set
C26_Witness ==
  /\ act = "handleDismiss" /\ view = NoView
  /\ lastUpdateCheckResult.set /\ lastUpdateCheckResult.available
  /\ isCheckingForUpdate

\* C27: the close / error handler of a child clears the slot only while the
\* slot still holds that child: a close event never empties a slot that
\* holds a running process, so no running process is left without a
\* reference by it and the next stop of all children reaches every running
\* child. (SpecSupervisor; the code does not keep this)
C27_CloseClearsOnlyItsOwnProcess ==
  [][act' = "childClosed" =>
        \A k \in Kinds :
           /\ proc[k].slot = "alive" => proc'[k].slot = "alive"
           /\ proc'[k].alive = proc[k].alive]_vars

\* C28: isCheckingForUpdate is true exactly while a check of the updater is
\* outstanding: set when the check starts, cleared when it finishes with
\* available, not-available or an error, and not cleared by an event that
\* belongs to something else, such as the error of a download, while the
\* check is outstanding. (SpecUpdater; the code does not keep this)
C28_FlagIffCheckOutstanding ==
  isCheckingForUpdate <=> upd.checking

\* number of createWindow runs among those of the set S
CountRuns(S) == BagCardinality([x \in S |-> runs[x]])

\* C29: at any time at most one createWindow run is in progress and at most
\* one main window exists: `activate` starts a creation only when there is
\* no window and no run is still on its way to one. (SpecDock; the code does
\* not keep this)
C29_OneRunOneWindow ==
  /\ CountRuns({run \in BagToSet(runs) : run.pc # "done"}) <= 1
  /\ CountRuns(OpenWindows(runs)) <= 1

\* C30: every createWindow run comes to an end, and in exactly one of two
\* ways: a run that has ended either created its window after a successful
\* backend probe, or showed the error box after a backend probe timeout,
\* got no window and quit the application. No run waits for ever: whenever
\* a run is under way, eventually every run has ended or the process has.
\* (SpecStartupFair)
C30_EveryRunTerminates ==
  /\ [](\A run \in BagToSet(runs) :
          run.pc = "done" =>
             \/ run.win # "none" /\ run.probe = "ok"
             \/ run.win = "none" /\ run.probe = "timeout" /\ app = "exited")
  /\ (\E run \in BagToSet(runs) : run.pc # "done") ~>
        (app = "exited" \/ \A run \in BagToSet(runs) : run.pc = "done")

\* a second run, started from the dock after the first window was closed,
\* ended with the error box and the quit, the first had ended with a window
C30_Witness ==
  /\ act = "fatal" /\ app = "exited" /\ 1 \in At("showErrorBox")
  /\ \E run \in BagToSet(runs) : run.pc = "done" /\ run.win = "closed" /\ run.probe = "ok"
  /\ \E run \in BagToSet(runs) : run.pc = "done" /\ run.win = "none" /\ run.probe = "timeout"

====
